---- MODULE Spec2Model ----
(***************************************************************************)
(* Model of worksheets/ws4/code:                                           *)
(*   general_transform_complex.py  plot_complex_transformation             *)
(*   ws4_verifications.py          transform_z_squared and its callers     *)
(*                                                                         *)
(* Complex numbers are Gaussian integers [re, im]; on these the float      *)
(* arithmetic of numpy / Python complex is exact.  np.linspace(..., dtype= *)
(* int) is modelled by exact rational interpolation followed by floor,     *)
(* which is what numpy computes for the sizes explored here.               *)
(***************************************************************************)
EXTENDS Integers, Sequences, FiniteSets

\* ---- bounds ----
MaxLen == 4
MaxN == 6
MaxY == 1
MaxX == 3

\* ---- complex arithmetic ----
Cx(a, b) == [re |-> a, im |-> b]

CMul(u, v) == Cx(u.re * v.re - u.im * v.im, u.re * v.im + u.im * v.re)

g_squared(z) == CMul(z, z)

transform_z_squared_abs(z) == Cx(z.re * z.re + z.im * z.im, 2 * z.re * z.im)

transform_z_squared_double(z) == Cx(2 * z.re, 2 * z.im)

\* ws4_verifications.transform_z_squared: z**2
transform_z_squared(z) == CMul(z, z)

g_qubed_as_square(z) == CMul(z, z)

g_qubed(z) == CMul(z, CMul(z, z))

Transformations == {"g_squared", "g_qubed"}

ApplyG(g, z) == IF g = "g_squared" THEN g_squared(z) ELSE g_qubed(z)

\* g(z_values): numpy applies the transformation elementwise
MapG(g, zs) == [i \in 1..Len(zs) |-> ApplyG(g, zs[i])]

\* transform_z_squared(z_line) on an array, and the list comprehension over z_points
MapSquared(zs) == [i \in 1..Len(zs) |-> transform_z_squared(zs[i])]

\* x_vals + 1j: the points x + i of the horizontal line at height 1
OnLine(xs) == [i \in 1..Len(xs) |-> Cx(xs[i], 1)]

\* the integer abscissae lo, lo+1, ..., hi
Abscissae(lo, hi) == [i \in 1..(hi - lo + 1) |-> lo + i - 1]

\* the theoretical parabola Re(w) = Im(w)^2/4 - 1, cleared of the fraction
OnParabola(w) == 4 * w.re = w.im * w.im - 4

\* plot_point_mapping_examples: x_points
x_points == << -2, -1, 0, 1, 2 >>

\* analyze_transformation: x_vals and y_vals of the KEY POINT MAPPINGS loop
an_x_vals == << -1, 1, -1, 1, -1 >>

an_y_vals == << -2, -1, 0, 1, 2 >>

\* sample points of the demo path z = 1 + iy
PathPoints == {Cx(1, y) : y \in (0 - MaxY)..MaxY}

Paths == UNION {[1..l -> PathPoints] : l \in 0..MaxLen}

\* ---- numpy helpers ----
\* np.linspace(start, stop, num, dtype=int): num evenly spaced values over
\* [start, stop], endpoint included, then floor and cast to int
Linspace(start, stop, num) ==
    IF num = 0 THEN << >>
    ELSE IF num = 1 THEN << start >>
    ELSE [k \in 1..num |->
             IF k = num THEN stop
             ELSE start + (((k - 1) * (stop - start)) \div (num - 1))]

HighlightIndicesOffByOne(zs, n) == Linspace(0, Len(zs), n)

HighlightIndicesNoEndpoint(zs, n) ==
    [k \in 1..n |-> ((k - 1) * (Len(zs) - 1)) \div n]

HighlightIndicesNearest(zs, n) ==
    IF n <= 1 THEN Linspace(0, Len(zs) - 1, n)
    ELSE [k \in 1..n |-> (2 * (k - 1) * (Len(zs) - 1) + (n - 1)) \div (2 * (n - 1))]

HighlightIndicesGuarded(zs, n) ==
    IF Len(zs) = 0 THEN << >> ELSE Linspace(0, Len(zs) - 1, n)

HighlightIndices(zs, n) == Linspace(0, Len(zs) - 1, n)

\* numpy integer-array indexing: i is in bounds iff -len <= i < len, and a
\* negative i counts from the end
ValidIndex(i, len) == (0 - len) <= i /\ i < len

NormIndex(i, len) == IF i < 0 THEN i + len + 1 ELSE i + 1

AllValid(idx, len) == \A k \in 1..Len(idx) : ValidIndex(idx[k], len)

Take(arr, idx) == [k \in 1..Len(idx) |-> arr[NormIndex(idx[k], Len(arr))]]

ArangeFromOne(n) == [k \in 1..n |-> k]

Arange(n) == [k \in 1..n |-> k - 1]

Real(zs) == [k \in 1..Len(zs) |-> zs[k].re]

Imag(zs) == [k \in 1..Len(zs) |-> zs[k].im]

NoScatter == [x |-> << >>, y |-> << >>, c |-> << >>]

Scatter(pts, n) == [x |-> Real(pts), y |-> Imag(pts), c |-> Arange(n)]

\* ---- state ----
VARIABLES pc, z_values, g, num_points, w_values, indices, z_points, w_points,
          fig, ax1_scatter, ax2_scatter, shown, error,
          vpc, z_line, w_line, ex_z_points, ex_w_points, ai, aj, printed

plotvars == << pc, z_values, g, num_points, w_values, indices, z_points,
               w_points, fig, ax1_scatter, ax2_scatter, shown, error >>

ws4vars == << vpc, z_line, w_line, ex_z_points, ex_w_points, ai, aj, printed >>

vars == << pc, z_values, g, num_points, w_values, indices, z_points, w_points,
           fig, ax1_scatter, ax2_scatter, shown, error,
           vpc, z_line, w_line, ex_z_points, ex_w_points, ai, aj, printed >>

Init ==
    /\ pc = "idle"
    /\ z_values = << >>
    /\ g = "g_squared"
    /\ num_points = 0
    /\ w_values = << >>
    /\ indices = << >>
    /\ z_points = << >>
    /\ w_points = << >>
    /\ fig = FALSE
    /\ ax1_scatter = NoScatter
    /\ ax2_scatter = NoScatter
    /\ shown = FALSE
    /\ error = "none"
    /\ vpc = "idle"
    /\ z_line = << >>
    /\ w_line = << >>
    /\ ex_z_points = << >>
    /\ ex_w_points = << >>
    /\ ai = 1
    /\ aj = 1
    /\ printed = << >>

\* a call of plot_complex_transformation(z_values, g, num_points)
Call ==
    /\ pc = "idle"
    /\ \E zs \in Paths, gg \in Transformations, n \in 0..MaxN :
          /\ z_values' = zs
          /\ g' = gg
          /\ num_points' = n
    /\ pc' = "transform"
    /\ w_values' = << >>
    /\ indices' = << >>
    /\ z_points' = << >>
    /\ w_points' = << >>
    /\ fig' = FALSE
    /\ ax1_scatter' = NoScatter
    /\ ax2_scatter' = NoScatter
    /\ shown' = FALSE
    /\ error' = "none"
    /\ UNCHANGED ws4vars

\* w_values = g(z_values)
Transform ==
    /\ pc = "transform"
    /\ w_values' = MapG(g, z_values)
    /\ pc' = "select"
    /\ UNCHANGED << z_values, g, num_points, indices, z_points, w_points,
                    fig, ax1_scatter, ax2_scatter, shown, error, ws4vars >>

\* indices = np.linspace(0, len(z_values) - 1, num_points, dtype=int)
SelectIndices ==
    /\ pc = "select"
    /\ indices' = HighlightIndices(z_values, num_points)
    /\ pc' = "take_z"
    /\ UNCHANGED << z_values, g, num_points, w_values, z_points, w_points,
                    fig, ax1_scatter, ax2_scatter, shown, error, ws4vars >>

\* z_points = z_values[indices]
TakeZ ==
    /\ pc = "take_z"
    /\ IF AllValid(indices, Len(z_values))
       THEN /\ z_points' = Take(z_values, indices)
            /\ pc' = "take_w"
            /\ error' = error
       ELSE /\ z_points' = z_points
            /\ pc' = "raised"
            /\ error' = "IndexError"
    /\ UNCHANGED << z_values, g, num_points, w_values, indices, w_points,
                    fig, ax1_scatter, ax2_scatter, shown, ws4vars >>

\* w_points = w_values[indices]
TakeW ==
    /\ pc = "take_w"
    /\ IF AllValid(indices, Len(w_values))
       THEN /\ w_points' = Take(w_values, indices)
            /\ pc' = "subplots"
            /\ error' = error
       ELSE /\ w_points' = w_points
            /\ pc' = "raised"
            /\ error' = "IndexError"
    /\ UNCHANGED << z_values, g, num_points, w_values, indices, z_points,
                    fig, ax1_scatter, ax2_scatter, shown, ws4vars >>

\* fig, (ax1, ax2) = plt.subplots(1, 2, ...)
Subplots ==
    /\ pc = "subplots"
    /\ fig' = TRUE
    /\ pc' = "plot_z"
    /\ UNCHANGED << z_values, g, num_points, w_values, indices, z_points,
                    w_points, ax1_scatter, ax2_scatter, shown, error, ws4vars >>

\* the z-plane panel: ax1.scatter(z_points.real, z_points.imag, c=np.arange(num_points))
PlotZ ==
    /\ pc = "plot_z"
    /\ ax1_scatter' = Scatter(z_points, num_points)
    /\ pc' = "plot_w"
    /\ UNCHANGED << z_values, g, num_points, w_values, indices, z_points,
                    w_points, fig, ax2_scatter, shown, error, ws4vars >>

\* the w-plane panel: ax2.scatter(w_points.real, w_points.imag, c=np.arange(num_points))
PlotW ==
    /\ pc = "plot_w"
    /\ ax2_scatter' = Scatter(w_points, num_points)
    /\ pc' = "show"
    /\ UNCHANGED << z_values, g, num_points, w_values, indices, z_points,
                    w_points, fig, ax1_scatter, shown, error, ws4vars >>

\* plt.tight_layout(); plt.show()
Show ==
    /\ pc = "show"
    /\ shown' = TRUE
    /\ pc' = "returned"
    /\ UNCHANGED << z_values, g, num_points, w_values, indices, z_points,
                    w_points, fig, ax1_scatter, ax2_scatter, error, ws4vars >>

\* the call returned: the caller goes on and the plot pair is discarded
Resume ==
    /\ pc = "returned"
    /\ pc' = "idle"
    /\ z_values' = << >>
    /\ g' = "g_squared"
    /\ num_points' = 0
    /\ w_values' = << >>
    /\ indices' = << >>
    /\ z_points' = << >>
    /\ w_points' = << >>
    /\ fig' = FALSE
    /\ ax1_scatter' = NoScatter
    /\ ax2_scatter' = NoScatter
    /\ shown' = FALSE
    /\ error' = "none"
    /\ UNCHANGED ws4vars

Next ==
    \/ Call
    \/ Transform
    \/ SelectIndices
    \/ TakeZ
    \/ TakeW
    \/ Subplots
    \/ PlotZ
    \/ PlotW
    \/ Show
    \/ Resume

Spec == Init /\ [][Next]_vars

\* ---- ws4_verifications.py ----
\* plot_line_mapping: the line z = x + i and its image, on integer abscissae
PlotLineMapping ==
    /\ vpc = "idle"
    /\ \E lo \in (0 - MaxX)..MaxX, hi \in (0 - MaxX)..MaxX :
          /\ lo <= hi
          /\ z_line' = OnLine(Abscissae(lo, hi))
          /\ w_line' = MapSquared(OnLine(Abscissae(lo, hi)))
    /\ UNCHANGED << vpc, ex_z_points, ex_w_points, ai, aj, printed, plotvars >>

\* plot_point_mapping_examples: z_points and w_points of the key points
PlotPointMappingExamples ==
    /\ vpc = "idle"
    /\ ex_z_points' = OnLine(x_points)
    /\ ex_w_points' = MapSquared(OnLine(x_points))
    /\ UNCHANGED << vpc, z_line, w_line, ai, aj, printed, plotvars >>

\* analyze_transformation up to the KEY POINT MAPPINGS header
AnalyzeBegin ==
    /\ vpc = "idle"
    /\ vpc' = "analyze"
    /\ ai' = 1
    /\ aj' = 1
    /\ printed' = << >>
    /\ UNCHANGED << z_line, w_line, ex_z_points, ex_w_points, plotvars >>

\* one pass of the inner loop: z = x + 1j*y, w = transform_z_squared(z), and
\* the line "z = x + i -> w = re + im i" that is printed
AnalyzeStep ==
    /\ vpc = "analyze"
    /\ ai <= Len(an_x_vals)
    /\ printed' = Append(printed,
          [x |-> an_x_vals[ai],
           re |-> transform_z_squared(Cx(an_x_vals[ai], an_y_vals[aj])).re,
           im |-> transform_z_squared(Cx(an_x_vals[ai], an_y_vals[aj])).im])
    /\ IF aj < Len(an_y_vals)
       THEN /\ aj' = aj + 1
            /\ ai' = ai
       ELSE /\ aj' = 1
            /\ ai' = ai + 1
    /\ UNCHANGED << vpc, z_line, w_line, ex_z_points, ex_w_points, plotvars >>

\* the loops are over: GEOMETRIC PROPERTIES is printed and the function returns
AnalyzeEnd ==
    /\ vpc = "analyze"
    /\ ai > Len(an_x_vals)
    /\ vpc' = "idle"
    /\ UNCHANGED << z_line, w_line, ex_z_points, ex_w_points, ai, aj, printed,
                    plotvars >>

NextWs4 ==
    \/ PlotLineMapping
    \/ PlotPointMappingExamples
    \/ AnalyzeBegin
    \/ AnalyzeStep
    \/ AnalyzeEnd

SpecWs4 == Init /\ [][NextWs4]_vars

\* ---- properties of plot_complex_transformation ----
PathLen == Len(z_values)

\* line 30 has run in the current call
IndicesSelected ==
    pc \in {"take_z", "take_w", "subplots", "plot_z", "plot_w", "show",
            "returned", "raised"}

\* line 27 has run in the current call
Transformed == pc \notin {"idle", "transform"}

\* lines 31 and 32 have run without raising
PointsTaken == pc \in {"subplots", "plot_z", "plot_w", "show", "returned"}

\* both scatter calls have run
BothPlotted == pc \in {"show", "returned"}

Abs(a) == IF a < 0 THEN 0 - a ELSE a

\* C1: for a path of length L >= 2 and 1 < num_points <= L the first selected
\* highlight index is 0 and the last is L-1.
C1_FirstAndLast ==
    (IndicesSelected /\ 1 < num_points /\ num_points <= PathLen)
        => /\ Len(indices) = num_points
           /\ indices[1] = 0
           /\ indices[num_points] = PathLen - 1

C1_Witness ==
    /\ pc = "returned"
    /\ PathLen = 4
    /\ num_points = 3
    /\ indices[1] = 0
    /\ indices[3] = 3

\* C2 as stated: for a non-empty path and num_points >= 2 the k-th selected index
\* is k*(L-1)/(n-1) rounded to the nearest integer (at most 1/2 away from it).
C2_NearestAsClaimed ==
    (IndicesSelected /\ PathLen >= 1 /\ num_points >= 2)
        => \A k \in 1..Len(indices) :
              2 * Abs(indices[k] * (num_points - 1) - (k - 1) * (PathLen - 1))
                  <= num_points - 1

\* C2 as amended: for a non-empty path and num_points >= 2 there are num_points
\* indices and the k-th is k*(L-1)/(n-1) rounded down to an integer (floor), so
\* it is never above the interpolated position and less than 1 below it.
C2_RoundedDown ==
    (IndicesSelected /\ PathLen >= 1 /\ num_points >= 2)
        => /\ Len(indices) = num_points
           /\ \A k \in 1..Len(indices) :
                 /\ indices[k] * (num_points - 1) <= (k - 1) * (PathLen - 1)
                 /\ (k - 1) * (PathLen - 1) < (indices[k] + 1) * (num_points - 1)

\* L = 3, n = 4: the positions 0, 2/3, 4/3, 2 give 0, 0, 1, 2, where rounding
\* to nearest would give 0, 1, 1, 2
C2_Witness ==
    /\ IndicesSelected
    /\ PathLen = 3
    /\ num_points = 4
    /\ indices = << 0, 0, 1, 2 >>

\* C4: for a non-empty path and num_points >= 1 both scatters hold exactly
\* num_points points, the k-th z-point and the k-th w-point are taken at the same
\* path index, and both get colour value k (counted from 0), whatever their value.
C4_SharedColourOrder ==
    (PathLen >= 1 /\ num_points >= 1)
        => /\ pc # "raised"
           /\ BothPlotted =>
                 /\ Len(ax1_scatter.x) = num_points
                 /\ Len(ax1_scatter.y) = num_points
                 /\ Len(ax2_scatter.x) = num_points
                 /\ Len(ax2_scatter.y) = num_points
                 /\ Len(ax1_scatter.c) = num_points
                 /\ Len(ax2_scatter.c) = num_points
                 /\ \A k \in 1..num_points :
                       /\ indices[k] \in 0..(PathLen - 1)
                       /\ ax1_scatter.x[k] = z_values[indices[k] + 1].re
                       /\ ax1_scatter.y[k] = z_values[indices[k] + 1].im
                       /\ ax2_scatter.x[k] = w_values[indices[k] + 1].re
                       /\ ax2_scatter.y[k] = w_values[indices[k] + 1].im
                       /\ ax1_scatter.c[k] = k - 1
                       /\ ax2_scatter.c[k] = k - 1

\* two highlighted points with the same value and different colours
C4_Witness ==
    /\ pc = "returned"
    /\ PathLen = 3
    /\ num_points = 3
    /\ ax1_scatter.x[1] = ax1_scatter.x[3]
    /\ ax1_scatter.y[1] = ax1_scatter.y[3]
    /\ ax1_scatter.c = << 0, 1, 2 >>
    /\ ax2_scatter.c = << 0, 1, 2 >>

\* the square and the cube of a + bi, written out
SquareOf(z) == Cx(z.re * z.re - z.im * z.im, 2 * z.re * z.im)

CubeOf(z) ==
    Cx(z.re * z.re * z.re - 3 * z.re * z.im * z.im,
       3 * z.re * z.re * z.im - z.im * z.im * z.im)

ValueOf(gg, z) == IF gg = "g_squared" THEN SquareOf(z) ELSE CubeOf(z)

\* C5: for a non-empty path the image has the length of the path and
\* image[i] = g(path[i]) for every i; every highlighted w-point is g of the
\* highlighted z-point at the same position.
C5_Elementwise ==
    PathLen >= 1
        => /\ Transformed =>
                 /\ Len(w_values) = PathLen
                 /\ \A i \in 1..PathLen : w_values[i] = ValueOf(g, z_values[i])
           /\ PointsTaken =>
                 /\ Len(w_points) = Len(z_points)
                 /\ \A k \in 1..Len(z_points) : w_points[k] = ValueOf(g, z_points[k])

C5_Witness ==
    /\ pc = "returned"
    /\ g = "g_qubed"
    /\ PathLen = 3
    /\ num_points = 2
    /\ z_values[3] = Cx(1, 1)
    /\ w_values[3] = Cx(-2, 2)
    /\ w_points[2] = Cx(-2, 2)

\* C6: for a non-empty path and 1 <= num_points <= L the selected indices are
\* strictly increasing.
C6_StrictlyIncreasing ==
    (IndicesSelected /\ PathLen >= 1 /\ 1 <= num_points /\ num_points <= PathLen)
        => /\ Len(indices) = num_points
           /\ \A k \in 1..(num_points - 1) : indices[k] < indices[k + 1]

C6_Witness ==
    /\ IndicesSelected
    /\ PathLen = 4
    /\ num_points = 3
    /\ indices = << 0, 1, 3 >>

\* C7: when num_points exceeds the path length L >= 1 the call does not fail,
\* exactly num_points indices are produced, each in [0, L-1], non-decreasing,
\* and at least one index is repeated.
C7_GracefulDuplicates ==
    (PathLen >= 1 /\ num_points > PathLen)
        => /\ pc # "raised"
           /\ error = "none"
           /\ IndicesSelected =>
                 /\ Len(indices) = num_points
                 /\ \A k \in 1..num_points : indices[k] \in 0..(PathLen - 1)
                 /\ \A k \in 1..(num_points - 1) : indices[k] <= indices[k + 1]
                 /\ \E j \in 1..num_points, k \in 1..num_points :
                       j < k /\ indices[j] = indices[k]

C7_Witness ==
    /\ pc = "returned"
    /\ shown
    /\ PathLen = 2
    /\ num_points = 5
    /\ indices = << 0, 0, 0, 0, 1 >>

\* C8: an empty path with num_points >= 1 fails with an out-of-range condition
\* at the highlight selection, before any figure is created or displayed.
C8_EmptyPathFails ==
    (pc # "idle" /\ PathLen = 0 /\ num_points >= 1)
        => /\ ~fig
           /\ ~shown
           /\ pc \in {"transform", "select", "take_z", "raised"}
           /\ (pc = "raised") = (error = "IndexError")

C8_Witness ==
    /\ pc = "raised"
    /\ error = "IndexError"
    /\ PathLen = 0
    /\ num_points >= 2
    /\ indices[num_points] = -1
    /\ ~fig

\* ---- properties of ws4_verifications.py ----
\* C3 as stated: the key points x + i, x = -2..2, map to -3-4i, -2i, -1, 2i, 3+4i.
C3_OutputsAsClaimed ==
    ex_w_points # << >>
        => ex_w_points = << Cx(-3, -4), Cx(0, -2), Cx(-1, 0), Cx(0, 2), Cx(3, 4) >>

\* C3 as amended: the key points x + i, x = -2..2, map to 3-4i, -2i, -1, 2i, 3+4i.
C3_Outputs ==
    ex_w_points # << >>
        => /\ ex_z_points = << Cx(-2, 1), Cx(-1, 1), Cx(0, 1), Cx(1, 1), Cx(2, 1) >>
           /\ ex_w_points = << Cx(3, -4), Cx(0, -2), Cx(-1, 0), Cx(0, 2), Cx(3, 4) >>

C3_Witness ==
    /\ Len(ex_w_points) = 5
    /\ ex_w_points[1] = Cx(3, -4)

\* C9: for every x the image w = (x + i)^2 has Re(w) = x^2 - 1 and Im(w) = 2x
\* and lies on the theoretical parabola, 4*Re(w) = Im(w)^2 - 4.
C9_ImageOnParabola ==
    /\ Len(w_line) = Len(z_line)
    /\ \A k \in 1..Len(z_line) :
          /\ z_line[k].im = 1
          /\ w_line[k].re = z_line[k].re * z_line[k].re - 1
          /\ w_line[k].im = 2 * z_line[k].re
          /\ OnParabola(w_line[k])

C9_Witness ==
    /\ Len(w_line) = 2 * MaxX + 1
    /\ z_line[1] = Cx(0 - MaxX, 1)
    /\ w_line[1] = Cx(MaxX * MaxX - 1, 0 - 2 * MaxX)
    /\ w_line[2 * MaxX + 1] = Cx(MaxX * MaxX - 1, 2 * MaxX)

\* C10: every KEY POINT MAPPINGS line "z = x + i -> w = ..." reports
\* w = (x + i)^2 for the x it shows.
C10_PrintedPointsOnLine ==
    \A k \in 1..Len(printed) :
       /\ printed[k].re = printed[k].x * printed[k].x - 1
       /\ printed[k].im = 2 * printed[k].x

====
